---- MODULE Spec2Model ----
(***************************************************************************)
(* Model of apps/web/pages/event-types/[type]/index.tsx: the edit page of  *)
(* one event type.  The state is the fetched record (props), the form      *)
(* store (the draft), the dialog state and the update mutation; there is   *)
(* one action per handler of the page.                                     *)
(*                                                                         *)
(* Optional values (null / undefined in the source) are sequences of       *)
(* length at most one: None is <<>>, Some(v) is <<v>>.                     *)
(*                                                                         *)
(* The variables lastEvent, thrown, mutateCalls, request, toasts and       *)
(* invalidated describe what the handler that ran last did; every handler  *)
(* resets them.                                                            *)
(*                                                                         *)
(* setSlugExistsChildrenDialogOpen is only ever called with [] (lines 481  *)
(* and 498), so slugExistsChildrenDialogOpen stays empty.  The handlers of *)
(* the dialog carry no condition of their own and are modelled as          *)
(* callable at any time, which is how handleSubmit (lines 324-393) runs.   *)
(*                                                                         *)
(* onSuccess / onError and the onSettled that follows run back to back:    *)
(* no user event comes between them (settling # "none").  The body of      *)
(* EventTypePage runs again on every render; lines 191-204 leave a         *)
(* metadata they have already normalised as it is, so only the first       *)
(* render (Mount) is a step.                                               *)
(***************************************************************************)
EXTENDS Integers, Sequences, FiniteSets, TLC

VARIABLES eventType, team, draft, slugExistsChildrenDialogOpen,
          inflight, settling, lastEvent, thrown, mutateCalls, request,
          toasts, invalidated

vars == <<eventType, team, draft, slugExistsChildrenDialogOpen,
          inflight, settling, lastEvent, thrown, mutateCalls, request,
          toasts, invalidated>>

(* ---------------------------- bounds ----------------------------------- *)

\* number of period units (narrowest first) the drafts' limit maps range over
MaxUnits == 2
\* largest number of form fields that differ from their default values
MaxDirtyFields == 2
\* largest number of update mutations that have not settled
MaxInflight == 2

(* ---------------------------- values ----------------------------------- *)

None == <<>>
Some(v) == <<v>>
IsSome(o) == o # <<>>
Val(o) == o[1]

\* period units of an IntervalLimit, narrowest first
UnitOrder == <<"PER_DAY", "PER_WEEK", "PER_MONTH", "PER_YEAR">>

UnitRank(u) == CHOOSE i \in 1..Len(UnitOrder) : UnitOrder[i] = u

LimitUnits == {UnitOrder[i] : i \in 1..(IF MaxUnits < Len(UnitOrder) THEN MaxUnits ELSE Len(UnitOrder))}

\* the IntervalLimit values a draft can hold: a bound of 1 or 2 for each unit
LimitMaps == [LimitUnits -> {1, 2}]

\* validateIntervalLimitOrder: no narrower unit's bound exceeds a broader one's
validateIntervalLimitOrder(m) ==
    \A u \in DOMAIN m : \A v \in DOMAIN m :
        UnitRank(u) < UnitRank(v) => m[u] <= m[v]

\* validateBookerLayouts: the error key of a layout setting of the wrong
\* shape, nothing (None) for null or a well-shaped setting
validateBookerLayouts(settings) ==
    IF IsSome(settings) /\ Val(settings) = "invalid_shape"
    THEN Some("bookerlayout_error")
    ELSE None

\* JavaScript truthiness of a number | null | undefined
TruthyNum(o) == IsSome(o) /\ Val(o) # 0

(* ------------------------- the fetched record -------------------------- *)

AliceChild == [slug |-> "meet", owner |-> [id |-> 1, name |-> "Alice"]]
BobChild == [slug |-> "meet", owner |-> [id |-> 2, name |-> "Bob"]]

\* members of the team of a managed event type, with their own event types
TeamMembers ==
    << [user |-> [id |-> 1, eventTypes |-> <<"meet", "intro">>]],
       [user |-> [id |-> 2, eventTypes |-> <<"meet">>]] >>

Configs == {None} \cup {Some([useHostSchedulesForTeamEvent |-> k]) :
                          k \in {None, Some(TRUE), Some(FALSE)}}

EmptyMetadata ==
    [config |-> None, bookerLayouts |-> None, multipleDuration |-> None,
     paymentOption |-> None]

Metadatas == {None} \cup {Some([EmptyMetadata EXCEPT !.config = c]) : c \in Configs}

\* a fetched record, of a team (isTeam) or of a user
Record(isTeam, s, m, start, end, calendarDays) ==
    [id |-> 7, title |-> "Meeting", slug |-> "meet", length |-> 30,
     schedule |-> s, metadata |-> m,
     periodStartDate |-> start, periodEndDate |-> end,
     periodCountCalendarDays |-> calendarDays,
     bookingLimits |-> None, durationLimits |-> None,
     children |-> IF isTeam THEN <<AliceChild>> ELSE <<>>,
     teamMembers |-> IF isTeam THEN Some(TeamMembers) ELSE None]

\* the records the page is opened on in Spec: a team's with the stripe option
\* "HOLD" in its metadata, a user's without metadata
Records(isTeam) ==
    {Record(isTeam, None,
            IF isTeam THEN Some([EmptyMetadata EXCEPT !.paymentOption = Some("HOLD")]) ELSE None,
            Some(1), None, FALSE)}

\* the records the page is opened on in SpecMount
AllRecords(isTeam) ==
    {Record(isTeam, s, m, start, end, calendarDays) :
        s \in {None, Some(1)}, m \in Metadatas, start \in {None, Some(1)},
        end \in {None, Some(2)}, calendarDays \in BOOLEAN}

\* Date.now() of lines 187-188
Now == 9

(* --------------------- EventTypePage: initialisation ------------------- *)

\* InitMetadata without the delete of its else branch
InitMetadata_KeepsKey(et, isTeam) ==
    LET metadata == et.metadata IN
    IF isTeam /\ IsSome(metadata)
    THEN LET config == Val(metadata).config
             key == IF IsSome(config)
                    THEN Val(config).useHostSchedulesForTeamEvent
                    ELSE None
             value == IF IsSome(key) THEN Val(key) = TRUE ELSE IsSome(et.schedule)
         IN  Some([Val(metadata) EXCEPT
                     !.config = Some([useHostSchedulesForTeamEvent |-> Some(value)])])
    ELSE metadata

\* lines 191-204: normalise metadata.config.useHostSchedulesForTeamEvent
InitMetadata(et, isTeam) ==
    LET metadata == et.metadata IN
    IF isTeam /\ IsSome(metadata)
    THEN LET config == Val(metadata).config
             key == IF IsSome(config)
                    THEN Val(config).useHostSchedulesForTeamEvent
                    ELSE None
             value == IF IsSome(key) THEN Val(key) = TRUE ELSE IsSome(et.schedule)
         IN  Some([Val(metadata) EXCEPT
                     !.config = Some([useHostSchedulesForTeamEvent |-> Some(value)])])
    ELSE IF IsSome(metadata) /\ IsSome(Val(metadata).config)
         THEN Some([Val(metadata) EXCEPT
                     !.config = Some([useHostSchedulesForTeamEvent |-> None])])
         ELSE metadata

\* lines 240-244: the other slugs of the child's owner
EventTypeSlugs(et, ownerId) ==
    IF IsSome(et.teamMembers)
       /\ \E i \in 1..Len(Val(et.teamMembers)) : Val(et.teamMembers)[i].user.id = ownerId
    THEN LET mems == Val(et.teamMembers)
             i == CHOOSE j \in 1..Len(mems) :
                     /\ mems[j].user.id = ownerId
                     /\ \A k \in 1..(j - 1) : mems[k].user.id # ownerId
             NotOwn(slug) == slug # et.slug
         IN  SelectSeq(mems[i].user.eventTypes, NotOwn)
    ELSE <<>>

\* lines 235-246: a child of the form, created or not
FormChild(et, ch, created) ==
    [slug |-> ch.slug, created |-> created,
     owner |-> [id |-> ch.owner.id, name |-> ch.owner.name,
                eventTypeSlugs |-> EventTypeSlugs(et, ch.owner.id)]]

\* lines 186-189: the period dates of the record, now when it has none
PeriodDates(et) ==
    [startDate |-> IF IsSome(et.periodStartDate) THEN Val(et.periodStartDate) ELSE Now,
     endDate |-> IF IsSome(et.periodEndDate) THEN Val(et.periodEndDate) ELSE Now]

\* lines 213-248: defaultValues, with the fields of FormValues it leaves unset
DefaultValues(et) ==
    [title |-> et.title,
     slug |-> None,
     length |-> et.length,
     locations |-> <<>>,
     recurringEvent |-> None,
     customInputs |-> None,
     bookingLimits |-> et.bookingLimits,
     durationLimits |-> et.durationLimits,
     periodDates |-> PeriodDates(et),
     periodCountCalendarDays |-> IF et.periodCountCalendarDays THEN "1" ELSE "0",
     beforeBufferTime |-> None,
     afterBufferTime |-> None,
     seatsPerTimeSlot |-> None,
     seatsShowAttendees |-> None,
     seatsPerTimeSlotEnabled |-> None,
     minimumBookingNoticeInDurationType |-> None,
     bookerLayouts |-> None,
     metadata |-> et.metadata,
     children |-> [i \in 1..Len(et.children) |-> FormChild(et, et.children[i], TRUE)]]

(* ------------------------------ the form ------------------------------- *)

Mounted == lastEvent # "init"

MetaField(values, f) ==
    IF IsSome(values.metadata) THEN Val(values.metadata)[f] ELSE None

EditableFields ==
    {"slug", "length", "bookingLimits", "durationLimits", "seatsPerTimeSlot",
     "metadata.bookerLayouts", "metadata.multipleDuration",
     "metadata.paymentOption", "children",
     "minimumBookingNoticeInDurationType", "seatsPerTimeSlotEnabled",
     "periodDates", "periodCountCalendarDays"}

MetadataFields ==
    {"metadata.bookerLayouts", "metadata.multipleDuration", "metadata.paymentOption"}

MetaKey(f) ==
    CASE f = "metadata.bookerLayouts" -> "bookerLayouts"
      [] f = "metadata.multipleDuration" -> "multipleDuration"
      [] f = "metadata.paymentOption" -> "paymentOption"

\* the values the tabs of the page let the user give to a field
FieldValues(f) ==
    CASE f = "slug" -> {None, Some("intro")}
      [] f = "length" -> {0, 15, 30}
      [] f = "bookingLimits" -> {None} \cup {Some(m) : m \in LimitMaps}
      [] f = "durationLimits" -> {None} \cup {Some(m) : m \in LimitMaps}
      [] f = "seatsPerTimeSlot" -> {None, Some(5)}
      [] f = "metadata.bookerLayouts" -> {None, Some("valid_shape"), Some("invalid_shape")}
      [] f = "metadata.multipleDuration" -> {None, Some(<<>>), Some(<<15>>)}
      [] f = "metadata.paymentOption" -> {None, Some("HOLD")}
      [] f = "children" ->
            { DefaultValues(eventType).children,
              DefaultValues(eventType).children \o <<FormChild(eventType, BobChild, FALSE)>> }
      [] f = "minimumBookingNoticeInDurationType" -> {None, Some(60)}
      [] f = "seatsPerTimeSlotEnabled" -> {None, Some(TRUE)}
      [] f = "periodDates" -> {PeriodDates(eventType), [startDate |-> 2, endDate |-> 3]}
      [] f = "periodCountCalendarDays" -> {"0", "1"}

\* formMethods.getValues(field)
GetValue(values, f) ==
    IF f \in MetadataFields THEN MetaField(values, MetaKey(f)) ELSE values[f]

\* formMethods.setValue(field, v): a nested field creates the object it is in
SetValue(values, f, v) ==
    IF f \in MetadataFields
    THEN LET md == IF IsSome(values.metadata) THEN Val(values.metadata) ELSE EmptyMetadata
         IN  [values EXCEPT !.metadata = Some([md EXCEPT ![MetaKey(f)] = v])]
    ELSE [values EXCEPT ![f] = v]

\* formState.dirtyFields: the fields that differ from their default value
DirtyFields(values) ==
    LET defaultValues == DefaultValues(eventType)
    IN  {f \in EditableFields : GetValue(values, f) # GetValue(defaultValues, f)}

(* --------------------------- submit handlers --------------------------- *)

Includes(seq, x) == \E i \in 1..Len(seq) : seq[i] = x

\* lines 348-356 and 434-442: the order check of both limit maps
LimitsError(values) ==
    IF IsSome(values.bookingLimits) /\ ~validateIntervalLimitOrder(Val(values.bookingLimits))
    THEN "event_setup_booking_limits_error"
    ELSE IF IsSome(values.durationLimits)
            /\ ~validateIntervalLimitOrder(Val(values.durationLimits))
         THEN "event_setup_duration_limits_error"
         ELSE "none"

\* lines 358-359 and 444-445
LayoutError(values) ==
    LET layoutError == validateBookerLayouts(MetaField(values, "bookerLayouts"))
    IN  IF IsSome(layoutError) THEN Val(layoutError) ELSE "none"

\* lines 361-369 and 447-455
MultipleDurationError(values) ==
    LET multipleDuration == MetaField(values, "multipleDuration") IN
    IF IsSome(multipleDuration)
    THEN IF Len(Val(multipleDuration)) < 1
         THEN "event_setup_multiple_duration_error"
         ELSE IF values.length = 0 /\ ~Includes(Val(multipleDuration), values.length)
              THEN "event_setup_multiple_duration_default_error"
              ELSE "none"
    ELSE "none"

\* lines 371-373
SeatsError(values) ==
    IF MetaField(values, "paymentOption") = Some("HOLD") /\ TruthyNum(values.seatsPerTimeSlot)
    THEN "seats_and_no_show_fee_error"
    ELSE "none"

\* the first error of a sequence of checks, "none" when there is none
FirstError(errors) ==
    IF \E i \in 1..Len(errors) : errors[i] # "none"
    THEN errors[CHOOSE i \in 1..Len(errors) :
                    errors[i] # "none" /\ \A j \in 1..(i - 1) : errors[j] = "none"]
    ELSE "none"

\* FormValidate without the order check of the duration limits
FormValidate_SkipsDurationLimits(values) ==
    FirstError(<<IF IsSome(values.bookingLimits)
                    /\ ~validateIntervalLimitOrder(Val(values.bookingLimits))
                 THEN "event_setup_booking_limits_error"
                 ELSE "none",
                 LayoutError(values), MultipleDurationError(values)>>)

\* lines 434-455: what the handleSubmit of the Form throws
FormValidate(values) ==
    FirstError(<<LimitsError(values), LayoutError(values), MultipleDurationError(values)>>)

\* lines 348-373: what handleSubmit throws
HandleSubmitValidate(values) ==
    FirstError(<<LimitsError(values), LayoutError(values), MultipleDurationError(values),
                 SeatsError(values)>>)

Rest(values, destructured) == [k \in (DOMAIN values) \ destructured |-> values[k]]

\* lines 415-432: the fields the Form's handleSubmit takes out of values
FormDestructured ==
    {"periodDates", "periodCountCalendarDays", "beforeBufferTime", "afterBufferTime",
     "seatsPerTimeSlot", "seatsShowAttendees", "bookingLimits", "durationLimits",
     "recurringEvent", "locations", "metadata", "customInputs",
     "seatsPerTimeSlotEnabled"}

\* lines 325-346: the fields handleSubmit takes out of values
HandleSubmitDestructured ==
    FormDestructured \cup {"children", "minimumBookingNoticeInDurationType", "bookerLayouts"}

\* lines 457-473: the argument of updateMutation.mutate in the Form
FormPayload(values, id) ==
    [locations |-> values.locations,
     recurringEvent |-> values.recurringEvent,
     periodStartDate |-> values.periodDates.startDate,
     periodEndDate |-> values.periodDates.endDate,
     periodCountCalendarDays |-> (values.periodCountCalendarDays = "1"),
     id |-> id,
     beforeEventBuffer |-> values.beforeBufferTime,
     afterEventBuffer |-> values.afterBufferTime,
     bookingLimits |-> values.bookingLimits,
     durationLimits |-> values.durationLimits,
     seatsPerTimeSlot |-> values.seatsPerTimeSlot,
     seatsShowAttendees |-> values.seatsShowAttendees,
     metadata |-> values.metadata,
     customInputs |-> values.customInputs]
    @@ Rest(values, FormDestructured)

\* HandleSubmitPayload with the two period dates the wrong way round
HandleSubmitPayload_SwapsDates(values, id) ==
    [locations |-> values.locations,
     recurringEvent |-> values.recurringEvent,
     periodStartDate |-> values.periodDates.endDate,
     periodEndDate |-> values.periodDates.startDate,
     periodCountCalendarDays |-> (values.periodCountCalendarDays = "1"),
     id |-> id,
     beforeEventBuffer |-> values.beforeBufferTime,
     afterEventBuffer |-> values.afterBufferTime,
     bookingLimits |-> values.bookingLimits,
     durationLimits |-> values.durationLimits,
     seatsPerTimeSlot |-> values.seatsPerTimeSlot,
     seatsShowAttendees |-> values.seatsShowAttendees,
     metadata |-> values.metadata,
     customInputs |-> values.customInputs,
     children |-> values.children]
    @@ Rest(values, HandleSubmitDestructured)

\* lines 375-392: the argument of updateMutation.mutate in handleSubmit
HandleSubmitPayload(values, id) ==
    [locations |-> values.locations,
     recurringEvent |-> values.recurringEvent,
     periodStartDate |-> values.periodDates.startDate,
     periodEndDate |-> values.periodDates.endDate,
     periodCountCalendarDays |-> (values.periodCountCalendarDays = "1"),
     id |-> id,
     beforeEventBuffer |-> values.beforeBufferTime,
     afterEventBuffer |-> values.afterBufferTime,
     bookingLimits |-> values.bookingLimits,
     durationLimits |-> values.durationLimits,
     seatsPerTimeSlot |-> values.seatsPerTimeSlot,
     seatsShowAttendees |-> values.seatsShowAttendees,
     metadata |-> values.metadata,
     customInputs |-> values.customInputs,
     children |-> values.children]
    @@ Rest(values, HandleSubmitDestructured)

NoRequest == [k \in {} |-> None]

(* ------------------------- mutation callbacks -------------------------- *)

\* MarkCreated that leaves the children as they are
MarkCreated_LeavesChildren(children) == children

\* lines 146-152: every child of the form becomes created
MarkCreated(children) ==
    [i \in 1..Len(children) |-> [children[i] EXCEPT !.created = TRUE]]

SuccessToast == [type |-> "success", message |-> "event_type_updated_successfully"]

\* the errors the update mutation fails with
MutationErrors ==
    [isHttpError : BOOLEAN,
     code : {"UNAUTHORIZED", "PARSE_ERROR", "BAD_REQUEST", "INTERNAL_SERVER_ERROR", "NONE"}]

\* lines 163-183: the toasts of onError
OnErrorToasts(err) ==
    LET first == IF err.isHttpError
                 THEN <<[type |-> "error", message |-> "statusCode: err.message"]>>
                 ELSE <<>>
        m1 == IF err.code = "UNAUTHORIZED"
              THEN "UNAUTHORIZED: You are not able to update this event"
              ELSE ""
        message == IF err.code \in {"PARSE_ERROR", "BAD_REQUEST"}
                   THEN "code: err.message"
                   ELSE m1
    IN  first \o (IF message # ""
                  THEN <<[type |-> "error", message |-> message]>>
                  ELSE <<[type |-> "error", message |-> "err.message"]>>)

(* ------------------------------- actions ------------------------------- *)

\* the page before its first render, on the record rec
Fetched(isTeam, rec) ==
    /\ team = isTeam
    /\ eventType = rec
    /\ draft = None
    /\ slugExistsChildrenDialogOpen = <<>>
    /\ inflight = 0
    /\ settling = "none"
    /\ lastEvent = "init"
    /\ thrown = "none"
    /\ mutateCalls = 0
    /\ request = NoRequest
    /\ toasts = <<>>
    /\ invalidated = FALSE

Init == \E isTeam \in BOOLEAN : \E rec \in Records(isTeam) : Fetched(isTeam, rec)

InitMount == \E isTeam \in BOOLEAN : \E rec \in AllRecords(isTeam) : Fetched(isTeam, rec)

\* what a handler that neither submits nor settles leaves behind
NoEffects ==
    /\ thrown' = "none"
    /\ mutateCalls' = 0
    /\ request' = NoRequest
    /\ toasts' = <<>>
    /\ invalidated' = FALSE

\* lines 129-274: the first render of EventTypePage
Mount ==
    /\ lastEvent = "init"
    /\ eventType' = [eventType EXCEPT !.metadata = InitMetadata(eventType, team)]
    /\ draft' = DefaultValues(eventType')
    /\ lastEvent' = "mount"
    /\ NoEffects
    /\ UNCHANGED <<team, slugExistsChildrenDialogOpen, inflight, settling>>

\* the user changes one field in a tab of the form, also while a mutation
\* is in flight
Edit(f, v) ==
    /\ Mounted
    /\ settling = "none"
    /\ GetValue(draft, f) # v
    /\ Cardinality(DirtyFields(SetValue(draft, f, v))) <= MaxDirtyFields
    /\ draft' = SetValue(draft, f, v)
    /\ lastEvent' = "edit"
    /\ NoEffects
    /\ UNCHANGED <<eventType, team, slugExistsChildrenDialogOpen, inflight, settling>>

\* the effects of a submit handler that throws err or calls mutate(payload)
Submit(err, payload) ==
    /\ err = "none" => inflight < MaxInflight
    /\ thrown' = err
    /\ mutateCalls' = IF err = "none" THEN 1 ELSE 0
    /\ request' = IF err = "none" THEN payload ELSE NoRequest
    /\ inflight' = IF err = "none" THEN inflight + 1 ELSE inflight
    /\ toasts' = <<>>
    /\ invalidated' = FALSE

\* lines 411-474: the main save action, the handleSubmit of the Form
FormSubmit ==
    /\ Mounted
    /\ settling = "none"
    /\ Submit(FormValidate(draft), FormPayload(draft, eventType.id))
    /\ lastEvent' = "formSubmit"
    /\ UNCHANGED <<eventType, team, draft, slugExistsChildrenDialogOpen, settling>>

\* lines 494-499: onConfirm of the dialog, which runs handleSubmit (324-393);
\* an error thrown in the async handleSubmit does not stop onConfirm
DialogConfirm ==
    /\ Mounted
    /\ settling = "none"
    /\ Submit(HandleSubmitValidate(draft), HandleSubmitPayload(draft, eventType.id))
    /\ slugExistsChildrenDialogOpen' = <<>>
    /\ lastEvent' = "dialogConfirm"
    /\ UNCHANGED <<eventType, team, draft, settling>>

\* lines 480-482: onOpenChange of the dialog
DialogClose ==
    /\ Mounted
    /\ settling = "none"
    /\ slugExistsChildrenDialogOpen' = <<>>
    /\ lastEvent' = "dialogClose"
    /\ NoEffects
    /\ UNCHANGED <<eventType, team, draft, inflight, settling>>

\* lines 145-159: onSuccess of the update mutation
OnSuccess ==
    /\ inflight > 0
    /\ settling = "none"
    /\ draft' = [draft EXCEPT !.children = MarkCreated(draft.children)]
    /\ toasts' = <<SuccessToast>>
    /\ settling' = "success"
    /\ lastEvent' = "onSuccess"
    /\ thrown' = "none"
    /\ mutateCalls' = 0
    /\ request' = NoRequest
    /\ invalidated' = FALSE
    /\ UNCHANGED <<eventType, team, slugExistsChildrenDialogOpen, inflight>>

\* lines 163-183: onError of the update mutation
OnError(err) ==
    /\ inflight > 0
    /\ settling = "none"
    /\ toasts' = OnErrorToasts(err)
    /\ settling' = "error"
    /\ lastEvent' = "onError"
    /\ thrown' = "none"
    /\ mutateCalls' = 0
    /\ request' = NoRequest
    /\ invalidated' = FALSE
    /\ UNCHANGED <<eventType, team, draft, slugExistsChildrenDialogOpen, inflight>>

\* lines 160-162: onSettled of the update mutation, after onSuccess or onError
OnSettled ==
    /\ settling # "none"
    /\ invalidated' = TRUE
    /\ inflight' = inflight - 1
    /\ settling' = "none"
    /\ lastEvent' = "onSettled"
    /\ thrown' = "none"
    /\ mutateCalls' = 0
    /\ request' = NoRequest
    /\ toasts' = <<>>
    /\ UNCHANGED <<eventType, team, draft, slugExistsChildrenDialogOpen>>

Next ==
    \/ Mount
    \/ \E f \in EditableFields : \E v \in FieldValues(f) : Edit(f, v)
    \/ FormSubmit
    \/ DialogConfirm
    \/ DialogClose
    \/ OnSuccess
    \/ \E err \in MutationErrors : OnError(err)
    \/ OnSettled

Spec == Init /\ [][Next]_vars

\* the first render alone, on every record
SpecMount == InitMount /\ [][Mount]_vars

\* a loading flag that never says loading
IsUpdateMutationLoading_NeverLoading == FALSE

\* line 407: isUpdateMutationLoading, the isLoading of the update mutation
IsUpdateMutationLoading == inflight > 0

\* EventTypeSingleLayout: the submit action is disabled while it is marked loading
SaveDisabled(isUpdateMutationLoading) == isUpdateMutationLoading

\* the main save as the rendered page offers it: the submit action of the
\* layout, which submits the Form (lines 400-414)
PageSave ==
    /\ ~SaveDisabled(IsUpdateMutationLoading)
    /\ FormSubmit

\* The user events of the rendered page.  The dialog is rendered open only
\* when slugExistsChildrenDialogOpen is not empty (line 479), which it never
\* is (TypeOK, also when its handlers are run as in Next), so the page offers
\* neither onConfirm nor onOpenChange.
NextPage ==
    \/ Mount
    \/ \E f \in EditableFields : \E v \in FieldValues(f) : Edit(f, v)
    \/ PageSave
    \/ OnSuccess
    \/ \E err \in MutationErrors : OnError(err)
    \/ OnSettled

SpecPage == Init /\ [][NextPage]_vars

TypeOK ==
    /\ team \in BOOLEAN
    /\ inflight \in 0..MaxInflight
    /\ settling \in {"none", "success", "error"}
    /\ mutateCalls \in 0..1
    /\ invalidated \in BOOLEAN
    /\ slugExistsChildrenDialogOpen = <<>>

(* ------------------------------- claims -------------------------------- *)

\* the last handler was a submit: the main save or the dialog's confirm
Submitted == lastEvent \in {"formSubmit", "dialogConfirm"}

LimitOrderBroken(limits) == IsSome(limits) /\ ~validateIntervalLimitOrder(Val(limits))

LimitErrors == {"event_setup_booking_limits_error", "event_setup_duration_limits_error"}

\* C1: on both submission paths, a draft whose bookingLimits or durationLimits
\* is present and out of order fails with a limit-order error, and the update
\* mutation is not invoked.
C1_LimitOrderBlocksMutation ==
    (Submitted /\ (LimitOrderBroken(draft.bookingLimits) \/ LimitOrderBroken(draft.durationLimits)))
        => (thrown \in LimitErrors /\ mutateCalls = 0 /\ request = NoRequest)

\* the main save has rejected a draft whose duration limits alone are out of order
C1_Witness ==
    /\ lastEvent = "formSubmit"
    /\ ~LimitOrderBroken(draft.bookingLimits)
    /\ LimitOrderBroken(draft.durationLimits)
    /\ thrown = "event_setup_duration_limits_error"

\* the rules of the specification that come before the seats rule all pass
LimitsAndLayoutPass(values) ==
    /\ ~LimitOrderBroken(values.bookingLimits)
    /\ ~LimitOrderBroken(values.durationLimits)
    /\ MetaField(values, "bookerLayouts") # Some("invalid_shape")

MultipleDurationPasses(values) ==
    LET md == MetaField(values, "multipleDuration")
    IN  IsSome(md) => (Len(Val(md)) >= 1 /\ \E i \in 1..Len(Val(md)) : Val(md)[i] = values.length)

SeatsConflict(values) ==
    /\ IsSome(values.seatsPerTimeSlot)
    /\ Val(values.seatsPerTimeSlot) # 0
    /\ MetaField(values, "paymentOption") = Some("HOLD")

\* C2: a draft with seatsPerTimeSlot set and the stripe payment option "HOLD"
\* (and no earlier rule broken) is rejected with the seats/payment conflict
\* error on both submission paths, and the update mutation is not invoked.
C2_SeatsHoldRejected ==
    (Submitted /\ SeatsConflict(draft) /\ LimitsAndLayoutPass(draft) /\ MultipleDurationPasses(draft))
        => (thrown = "seats_and_no_show_fee_error" /\ mutateCalls = 0)

\* C3: a draft whose multipleDuration is a non-empty list without the default
\* duration (and no earlier rule broken) fails with the default-duration error
\* whatever the length, and the update mutation is not invoked.
C3_DefaultDurationRequired ==
    (/\ Submitted
     /\ LimitsAndLayoutPass(draft)
     /\ IsSome(MetaField(draft, "multipleDuration"))
     /\ Len(Val(MetaField(draft, "multipleDuration"))) >= 1
     /\ ~MultipleDurationPasses(draft))
        => (thrown = "event_setup_multiple_duration_default_error" /\ mutateCalls = 0)

\* line 396: the slug of the form, the record's when the form has none
Slug(values) == IF IsSome(values.slug) THEN Val(values.slug) ELSE eventType.slug

\* the children whose owner already has an event type of the chosen slug
SlugCollisions(values) ==
    LET Collides(ch) == \E i \in 1..Len(ch.owner.eventTypeSlugs) :
                            ch.owner.eventTypeSlugs[i] = Slug(values)
    IN  SelectSeq(values.children, Collides)

\* C4: the main save of a draft whose slug collides with a sibling slug of a
\* child's owner withholds the update mutation and opens the confirmation
\* dialog with the affected children.
C4_CollisionDefersSubmit ==
    (lastEvent = "formSubmit" /\ SlugCollisions(draft) # <<>>)
        => /\ mutateCalls = 0
           /\ thrown = "none" => slugExistsChildrenDialogOpen = SlugCollisions(draft)

UiOnlyFields == {"minimumBookingNoticeInDurationType", "seatsPerTimeSlotEnabled", "periodDates"}

\* C5: no update request, on either submission path, carries a UI-only field
\* (the duration-unit selector, the seats-enabled toggle, the period-date pair).
C5_UiOnlyFieldsNotSent ==
    (Submitted /\ mutateCalls = 1)
        => \A k \in UiOnlyFields : ~(k \in DOMAIN request /\ request[k] # None)

HasHostSchedulesKey(metadata) ==
    /\ IsSome(metadata)
    /\ IsSome(Val(metadata).config)
    /\ IsSome(Val(Val(metadata).config).useHostSchedulesForTeamEvent)

AllRulesPass(values) ==
    /\ LimitsAndLayoutPass(values)
    /\ MultipleDurationPasses(values)
    /\ ~SeatsConflict(values)

\* C7: one submit of a draft that passes every rule invokes the update mutation
\* once, with the record's id, the period dates as two fields and
\* periodCountCalendarDays as the boolean (draft value = "1").
C7_ValidDraftMutatesOnce ==
    (Submitted /\ AllRulesPass(draft))
        => /\ thrown = "none"
           /\ mutateCalls = 1
           /\ request.id = eventType.id
           /\ request.periodStartDate = draft.periodDates.startDate
           /\ request.periodEndDate = draft.periodDates.endDate
           /\ request.periodCountCalendarDays = (draft.periodCountCalendarDays = "1")

\* the dialog's confirm has sent a draft with ordered booking limits on two
\* units and calendar days counted
C7_Witness ==
    /\ lastEvent = "dialogConfirm"
    /\ AllRulesPass(draft)
    /\ IsSome(draft.bookingLimits)
    /\ Cardinality(DOMAIN Val(draft.bookingLimits)) = 2
    /\ draft.periodCountCalendarDays = "1"
    /\ mutateCalls = 1
    /\ request.periodCountCalendarDays = TRUE

\* C8: the success handler of the update mutation makes every child of the
\* draft created and changes nothing else of the draft, shows one success
\* notification, and the cached record is invalidated right after it, never
\* before.
C8_SuccessMarksChildrenThenInvalidates ==
    [][ /\ lastEvent' = "onSuccess" =>
            /\ Len(draft'.children) = Len(draft.children)
            /\ \A i \in 1..Len(draft.children) :
                  draft'.children[i] = [draft.children[i] EXCEPT !.created = TRUE]
            /\ [draft' EXCEPT !.children = draft.children] = draft
            /\ toasts' = <<SuccessToast>>
            /\ ~invalidated'
            /\ settling' = "success"
        /\ settling = "success" =>
            /\ lastEvent' = "onSettled"
            /\ invalidated'
            /\ draft' = draft
        /\ invalidated' => settling # "none" ]_vars

\* the success handler has marked a child the user added, and shown the notification
C8_Witness ==
    /\ lastEvent = "onSuccess"
    /\ toasts = <<SuccessToast>>
    /\ \E i \in 1..Len(draft.children) :
          draft.children[i].owner.name = "Bob" /\ draft.children[i].created

\* C9: a failed update mutation, whatever its error, shows exactly one error
\* notification, throws nothing and calls the mutation again nowhere.
C9_OneErrorNotification ==
    lastEvent = "onError"
        => (Len(toasts) = 1 /\ thrown = "none" /\ mutateCalls = 0)

\* the rules of the specification a draft breaks, numbered in their order
ViolatedRules(values) ==
    LET md == MetaField(values, "multipleDuration") IN
    {r \in 1..6 :
        \/ r = 1 /\ LimitOrderBroken(values.bookingLimits)
        \/ r = 2 /\ LimitOrderBroken(values.durationLimits)
        \/ r = 3 /\ MetaField(values, "bookerLayouts") = Some("invalid_shape")
        \/ r = 4 /\ IsSome(md) /\ Len(Val(md)) < 1
        \/ r = 5 /\ IsSome(md) /\ Len(Val(md)) >= 1 /\ ~MultipleDurationPasses(values)
        \/ r = 6 /\ SeatsConflict(values)}

RuleError(r) ==
    CASE r = 1 -> "event_setup_booking_limits_error"
      [] r = 2 -> "event_setup_duration_limits_error"
      [] r = 3 -> "bookerlayout_error"
      [] r = 4 -> "event_setup_multiple_duration_error"
      [] r = 5 -> "event_setup_multiple_duration_default_error"
      [] r = 6 -> "seats_and_no_show_fee_error"

\* C10: a submit of a draft that breaks several rules throws the error of the
\* earliest broken rule in the order booking limits, duration limits, layout,
\* multiple duration (empty, then default missing), seats/payment, and does
\* not invoke the update mutation.
C10_EarliestRuleWins ==
    (Submitted /\ Cardinality(ViolatedRules(draft)) >= 2)
        => /\ thrown = RuleError(CHOOSE r \in ViolatedRules(draft) :
                                    \A q \in ViolatedRules(draft) : r <= q)
           /\ mutateCalls = 0

====
